---- MODULE Spec2Model ----
(***************************************************************************)
(* DataSage AI: the Streamlit application script app.py, its session       *)
(* state (cleaned_data, temp_cleaned_data, cleaning_summary,               *)
(* show_cleaning_results, demo_data), the display-cleaning helper          *)
(* _clean_dataframe_for_display of app.py and of backup_app.py, and the    *)
(* cleaning engine modules/data_cleaning.py as the specification           *)
(* describes it.                                                           *)
(*                                                                         *)
(* One action of the model is one user interaction: Streamlit re-runs the  *)
(* whole script for it, and after a handler that calls st.rerun() runs it  *)
(* once more, so the state after an action is the session state at rest    *)
(* and df / current_df are what the next run computes from it.             *)
(***************************************************************************)
EXTENDS Integers, Sequences, FiniteSets, TLC

\* ------------------------------------------------------------------------
\* Bounds
\* ------------------------------------------------------------------------
MaxStrLen == 2
MaxRows == 2

\* ------------------------------------------------------------------------
\* Text: a Python str is a sequence of one-character strings
\* ------------------------------------------------------------------------
Chars == {"a", "%", "$", ":", " "}
DisplayChars == {"a", "%", "$", ":"}

RECURSIVE StrsOfLen(_)
StrsOfLen(n) ==
    IF n = 0 THEN {<<>>}
    ELSE {Append(s, c) : s \in StrsOfLen(n - 1), c \in DisplayChars}

BoundedStrs == UNION {StrsOfLen(n) : n \in 0..MaxStrLen}

S_nan == <<"n", "a", "n">>
S_None == <<"N", "o", "n", "e">>
S_NaN == <<"N", "a", "N">>
S_percent == <<"_", "p", "e", "r", "c", "e", "n", "t">>
S_dollar == <<"_", "d", "o", "l", "l", "a", "r">>
S_colon == <<"_", "c", "o", "l", "o", "n">>
S_True == <<"T", "r", "u", "e">>
S_False == <<"F", "a", "l", "s", "e">>
S_NaT == <<"N", "a", "T">>
S_NA == <<"<", "N", "A", ">">>

\* str.replace(old, new, regex=False) for a one-character old
RECURSIVE str_replace(_, _, _)
str_replace(s, old, new) ==
    IF s = <<>> THEN <<>>
    ELSE (IF Head(s) = old THEN new ELSE <<Head(s)>>)
         \o str_replace(Tail(s), old, new)

Digit(d) == CASE d = 0 -> "0" [] d = 1 -> "1" [] d = 2 -> "2" [] d = 3 -> "3"
              [] d = 4 -> "4" [] d = 5 -> "5" [] d = 6 -> "6" [] d = 7 -> "7"
              [] d = 8 -> "8" [] d = 9 -> "9"

RECURSIVE NatStr(_)
NatStr(n) == IF n < 10 THEN <<Digit(n)>>
             ELSE Append(NatStr(n \div 10), Digit(n % 10))

\* str(i) of a Python int
IntStr(i) == IF i < 0 THEN <<"-">> \o NatStr(0 - i) ELSE NatStr(i)

\* str(x) of the Python float x = n + 1/2
HalfStr(n) ==
    (IF n < 0 THEN <<"-">> \o NatStr(0 - n - 1) ELSE NatStr(n))
    \o <<".", "5">>

\* two decimal digits
TwoDigits(n) == <<Digit((n \div 10) % 10), Digit(n % 10)>>

\* four decimal digits
FourDigits(n) == TwoDigits(n \div 100) \o TwoDigits(n % 100)

\* the calendar date (proleptic Gregorian) of the day `days` days after
\* 1970-01-01, as datetime computes it from the day count
CivilFromDays(days) ==
    LET z   == days + 719468
        era == z \div 146097
        doe == z - era * 146097
        yoe == (doe - doe \div 1460 + doe \div 36524 - doe \div 146096) \div 365
        doy == doe - (365 * yoe + yoe \div 4 - yoe \div 100)
        mp  == (5 * doy + 2) \div 153
        m   == IF mp < 10 THEN mp + 3 ELSE mp - 9
    IN  [year  |-> yoe + era * 400 + (IF m <= 2 THEN 1 ELSE 0),
         month |-> m,
         day   |-> doy - (153 * mp + 2) \div 5 + 1]

\* str(t) of the timestamp t seconds after 1970-01-01 00:00:00:
\* 'YYYY-MM-DD HH:MM:SS'
TimestampStr(t) ==
    LET date == CivilFromDays(t \div 86400)
        secs == t % 86400
    IN  FourDigits(date.year) \o <<"-">> \o TwoDigits(date.month) \o <<"-">>
        \o TwoDigits(date.day) \o <<" ">>
        \o TwoDigits(secs \div 3600) \o <<":">>
        \o TwoDigits((secs \div 60) % 60) \o <<":">>
        \o TwoDigits(secs % 60)

\* ------------------------------------------------------------------------
\* Cells, columns, dataframes
\*
\* A cell is [k, s, n, h]:
\*   k = "str"  a Python str, s its characters
\*   k = "nan"  float NaN (the missing value of object and float columns)
\*   k = "none" Python None
\*   k = "nat"  NaT (the missing value of a datetime64 column)
\*   k = "na"   pd.NA
\*   k = "num"  a number n + h/2 (h in {0,1}); in an object column a Python
\*              int (h = 0)
\*   k = "bool" a bool, n = 1 for True
\*   k = "ts"   a timestamp, n its seconds after 1970-01-01 00:00:00
\* A column is [name, dtype, cells]; a dataframe is a sequence of columns of
\* equal length.
\* ------------------------------------------------------------------------
StrCell(s) == [k |-> "str", s |-> s, n |-> 0, h |-> 0]
NumCell(n) == [k |-> "num", s |-> <<>>, n |-> n, h |-> 0]
BoolCell(b) == [k |-> "bool", s |-> <<>>, n |-> IF b THEN 1 ELSE 0, h |-> 0]
TsCell(n) == [k |-> "ts", s |-> <<>>, n |-> n, h |-> 0]
NaN == [k |-> "nan", s |-> <<>>, n |-> 0, h |-> 0]
PyNone == [k |-> "none", s |-> <<>>, n |-> 0, h |-> 0]
NaT == [k |-> "nat", s |-> <<>>, n |-> 0, h |-> 0]
PdNA == [k |-> "na", s |-> <<>>, n |-> 0, h |-> 0]

\* pandas isna / isnull
isnull(c) == c.k \in {"nan", "none", "nat", "na"}

Column(name, dtype, cells) == [name |-> name, dtype |-> dtype, cells |-> cells]

NRows(df) == IF Len(df) = 0 THEN 0 ELSE Len(df[1].cells)
Row(df, i) == [j \in 1..Len(df) |-> df[j].cells[i]]
ColumnNames(df) == [j \in 1..Len(df) |-> df[j].name]

\* Series.map over the cells of a column
MapCells(col, F(_)) ==
    [col EXCEPT !.cells = [i \in 1..Len(col.cells) |-> F(col.cells[i])]]

\* ------------------------------------------------------------------------
\* _clean_dataframe_for_display
\* ------------------------------------------------------------------------
\* Series.astype(str) on an object column: str(x) of every element
astype_str(c) ==
    CASE c.k = "str" -> c
      [] c.k = "nan" -> StrCell(S_nan)
      [] c.k = "none" -> StrCell(S_None)
      [] c.k = "nat" -> StrCell(S_NaT)
      [] c.k = "na" -> StrCell(S_NA)
      [] c.k = "num" -> StrCell(IF c.h = 1 THEN HalfStr(c.n) ELSE IntStr(c.n))
      [] c.k = "bool" -> StrCell(IF c.n = 1 THEN S_True ELSE S_False)
      [] OTHER -> StrCell(TimestampStr(c.n))

\* Series.replace(['nan', 'None', 'NaN'], ''): whole-value match
replace_nan_strings(c) ==
    IF c.k = "str" /\ c.s \in {S_nan, S_None, S_NaN} THEN StrCell(<<>>) ELSE c

\* Series.str.replace(old, new, regex=False); non-str elements become NaN
series_str_replace(c, old, new) ==
    IF c.k = "str" THEN StrCell(str_replace(c.s, old, new)) ELSE NaN

\* Series.fillna(value)
fillna(c, value) == IF isnull(c) THEN value ELSE c

\* app.py, first loop body for one column
app_first_loop(col) ==
    IF col.dtype = "object"
    THEN LET F(c) ==
               series_str_replace(
                 series_str_replace(
                   series_str_replace(replace_nan_strings(astype_str(c)),
                                      "%", S_percent),
                   "$", S_dollar),
                 ":", S_colon)
         IN MapCells(col, F)
    ELSE col

\* backup_app.py, first loop body for one column
backup_first_loop(col) ==
    IF col.dtype = "object"
    THEN LET F(c) ==
               series_str_replace(
                 series_str_replace(replace_nan_strings(astype_str(c)),
                                    "%", S_percent),
                 "$", S_dollar)
         IN MapCells(col, F)
    ELSE col

\* variant: the second loop fills object columns only
arrow_compatible_objects_only(col) ==
    IF col.dtype = "object"
    THEN LET F(c) == fillna(c, StrCell(<<>>)) IN MapCells(col, F)
    ELSE col

\* second loop body (the same in both files)
arrow_compatible(col) ==
    IF col.dtype = "object"
    THEN LET F(c) == fillna(c, StrCell(<<>>)) IN MapCells(col, F)
    ELSE IF col.dtype \in {"int64", "float64"}
    THEN LET F(c) == fillna(c, NumCell(0)) IN MapCells(col, F)
    ELSE col

\* Dataframes as Python objects: a heap is a sequence of dataframes and a
\* reference is an index into it, so a write through one name is seen
\* through every name bound to the same reference.
\* DataFrame.copy(): a new object (the last of the heap) with the columns of
\* the object copied
DataFrame_copy(heap, ref) == Append(heap, heap[ref])

\* frame[col] = series: column j of the object is replaced
setitem(heap, ref, j, series) ==
    [heap EXCEPT ![ref] = [@ EXCEPT ![j] = series]]

\* app.py lines 17-26: the first loop from column j on, assigning into
\* df_clean
RECURSIVE app_first_loop_from(_, _, _)
app_first_loop_from(heap, df_clean, j) ==
    IF j > Len(heap[df_clean]) THEN heap
    ELSE app_first_loop_from(
             setitem(heap, df_clean, j, app_first_loop(heap[df_clean][j])),
             df_clean, j + 1)

\* app.py lines 29-35: the second loop from column j on, assigning into
\* df_clean
RECURSIVE arrow_compatible_from(_, _, _)
arrow_compatible_from(heap, df_clean, j) ==
    IF j > Len(heap[df_clean]) THEN heap
    ELSE arrow_compatible_from(
             setitem(heap, df_clean, j, arrow_compatible(heap[df_clean][j])),
             df_clean, j + 1)

\* variant: df_clean = df, the loops assign into the frame given
call_clean_dataframe_for_display_in_place(heap, df) ==
    LET df_clean == df
    IN  [heap |-> arrow_compatible_from(
                      app_first_loop_from(heap, df_clean, 1), df_clean, 1),
         ret |-> df_clean]

\* app.py lines 13-37 called with the reference df: line 15 binds df_clean
\* to a copy, both loops assign into df_clean, line 37 returns it; the
\* value is the heap after the call and the reference returned
call_clean_dataframe_for_display(heap, df) ==
    LET copied == DataFrame_copy(heap, df)
        df_clean == Len(copied)
    IN  [heap |-> arrow_compatible_from(
                      app_first_loop_from(copied, df_clean, 1), df_clean, 1),
         ret |-> df_clean]

\* the object a call returned
Returned(call) == call.heap[call.ret]

\* the frame _clean_dataframe_for_display returns for a frame of its own
clean_dataframe_for_display(df) ==
    Returned(call_clean_dataframe_for_display(<<df>>, 1))

backup_clean_dataframe_for_display(df) ==
    [j \in 1..Len(df) |-> arrow_compatible(backup_first_loop(df[j]))]

\* ------------------------------------------------------------------------
\* The cleaning engine (modules/data_cleaning.py, DataCleaner), from the
\* specification sections 3, 4.3 and 7
\* ------------------------------------------------------------------------
\* the recognized operation tags in their canonical order (spec 4.3)
Tags == <<"remove_duplicates", "fix_data_types", "handle_missing_basic",
          "clean_text", "remove_outliers">>
TagSet == {Tags[i] : i \in 1..Len(Tags)}

NumericDtypes == {"int8", "int16", "int32", "int64", "float32", "float64"}
TextDtypes == {"object"}

\* rows of df whose index is in keep, in order
RECURSIVE TakeCells(_, _, _)
TakeCells(cells, keep, i) ==
    IF i > Len(cells) THEN <<>>
    ELSE (IF i \in keep THEN <<cells[i]>> ELSE <<>>)
         \o TakeCells(cells, keep, i + 1)

TakeRows(df, keep) ==
    [j \in 1..Len(df) |-> [df[j] EXCEPT !.cells = TakeCells(df[j].cells, keep, 1)]]

LogEntry(op, count, applicable) ==
    [op |-> op, count |-> count, applicable |-> applicable]

\* remove_duplicates: drop every row equal to an earlier row (keep first)
FirstOccurrences(df) ==
    {i \in 1..NRows(df) : \A j \in 1..(i - 1) : Row(df, j) /= Row(df, i)}

remove_duplicates(df) ==
    LET keep == FirstOccurrences(df)
    IN [data |-> TakeRows(df, keep),
        entry |-> LogEntry("remove_duplicates",
                           NRows(df) - Cardinality(keep), TRUE)]

\* twice the value of a numeric cell, and the cell of a doubled value
Twice(c) == 2 * c.n + c.h
NumFromTwice(t) == [k |-> "num", s |-> <<>>, n |-> t \div 2, h |-> t % 2]

NonNull(col) == {i \in 1..Len(col.cells) : ~isnull(col.cells[i])}

\* fix_data_types: narrower integer width when the value range fits (a float
\* column is left alone: narrowing it does not round-trip), category for a
\* text column whose distinct values are fewer than half of its rows
Fits(col, lo, hi) ==
    \A i \in NonNull(col) : col.cells[i].k = "num"
                            /\ col.cells[i].n >= lo /\ col.cells[i].n <= hi

suggested_type(col) ==
    IF col.dtype = "int64" /\ NonNull(col) = 1..Len(col.cells)
    THEN (IF Fits(col, -128, 127) THEN "int8"
          ELSE IF Fits(col, -32768, 32767) THEN "int16"
          ELSE IF Fits(col, -2147483647 - 1, 2147483647) THEN "int32"
          ELSE "int64")
    ELSE IF col.dtype = "float64"
    THEN "float64"
    ELSE IF col.dtype \in TextDtypes
    THEN (IF 2 * Cardinality({col.cells[i] : i \in 1..Len(col.cells)})
              < Len(col.cells)
          THEN "category" ELSE col.dtype)
    ELSE col.dtype

fix_data_types(df) ==
    LET changed == {j \in 1..Len(df) : suggested_type(df[j]) /= df[j].dtype}
    IN [data |-> [j \in 1..Len(df) |->
                    [df[j] EXCEPT !.dtype = suggested_type(df[j])]],
        entry |-> LogEntry("fix_data_types", Cardinality(changed), TRUE)]

\* ascending sort of a sequence of integers
RECURSIVE Insert(_, _)
Insert(x, s) ==
    IF s = <<>> THEN <<x>>
    ELSE IF x <= Head(s) THEN <<x>> \o s
    ELSE <<Head(s)>> \o Insert(x, Tail(s))

RECURSIVE Sort(_)
Sort(s) == IF s = <<>> THEN <<>> ELSE Insert(Head(s), Sort(Tail(s)))

\* the doubled non-null values of a numeric column, ascending
SortedTwice(col) ==
    Sort(TakeCells([i \in 1..Len(col.cells) |-> Twice(col.cells[i])],
                   NonNull(col), 1))

\* twice the median of a non-empty ascending sequence (of doubled values)
MedianTwice(t) ==
    LET m == Len(t)
    IN IF m % 2 = 1 THEN t[(m + 1) \div 2]
       ELSE (t[m \div 2] + t[m \div 2 + 1]) \div 2

\* the most frequent non-null value of a column, the earliest on a tie
Count(col, c) == Cardinality({i \in 1..Len(col.cells) : col.cells[i] = c})

FirstIndex(col, c) ==
    CHOOSE i \in 1..Len(col.cells) :
        col.cells[i] = c /\ \A l \in 1..(i - 1) : col.cells[l] /= c

Mode(col) ==
    LET firsts == {FirstIndex(col, col.cells[i]) : i \in NonNull(col)}
        best == CHOOSE i \in firsts :
                  \A j \in firsts :
                     \/ Count(col, col.cells[i]) > Count(col, col.cells[j])
                     \/ (Count(col, col.cells[i]) = Count(col, col.cells[j])
                         /\ i <= j)
    IN col.cells[best]

S_Unknown == <<"U", "n", "k", "n", "o", "w", "n">>

\* handle_missing_basic: numeric columns get the median, the others the mode
\* or the placeholder when the column has no value at all
FillValue(col) ==
    IF col.dtype \in NumericDtypes
    THEN (IF NonNull(col) = {} THEN NaN
          ELSE NumFromTwice(MedianTwice(SortedTwice(col))))
    ELSE (IF NonNull(col) = {} THEN StrCell(S_Unknown) ELSE Mode(col))

handle_missing_basic(df) ==
    LET missing == {<<j, i>> \in (1..Len(df)) \X (1..NRows(df)) :
                       isnull(df[j].cells[i])}
    IN [data |-> [j \in 1..Len(df) |->
                    LET F(c) == fillna(c, FillValue(df[j]))
                    IN MapCells(df[j], F)],
        entry |-> LogEntry("handle_missing_basic", Cardinality(missing), TRUE)]

\* clean_text: trim, and collapse every internal whitespace run to one space
RECURSIVE lstrip(_)
lstrip(s) == IF s /= <<>> /\ Head(s) = " " THEN lstrip(Tail(s)) ELSE s

RECURSIVE collapse(_)
collapse(s) ==
    IF s = <<>> THEN <<>>
    ELSE IF Head(s) = " "
    THEN (IF lstrip(s) = <<>> THEN <<>> ELSE <<" ">> \o collapse(lstrip(s)))
    ELSE <<Head(s)>> \o collapse(Tail(s))

normalize_text(s) == collapse(lstrip(s))

clean_text(df) ==
    LET F(c) == IF c.k = "str" THEN StrCell(normalize_text(c.s)) ELSE c
        out == [j \in 1..Len(df) |->
                  IF df[j].dtype \in TextDtypes THEN MapCells(df[j], F)
                  ELSE df[j]]
        text == {j \in 1..Len(df) : df[j].dtype \in TextDtypes}
        changed == {<<j, i>> \in (1..Len(df)) \X (1..NRows(df)) :
                       out[j].cells[i] /= df[j].cells[i]}
    IN [data |-> out,
        entry |-> LogEntry("clean_text", Cardinality(changed), text /= {})]

\* remove_outliers: drop the rows with a numeric value outside the IQR
\* fences of its column; quartiles by linear interpolation, all in integers
\* (t = doubled values, quartiles times 4, fences times 8)
Quartile4(t, q) ==
    LET pos == q * (Len(t) - 1)
        lo == pos \div 4 + 1
        k == pos % 4
    IN IF k = 0 THEN 4 * t[lo] ELSE 4 * t[lo] + k * (t[lo + 1] - t[lo])

IsOutlier(col, i) ==
    LET t == SortedTwice(col)
        q1 == Quartile4(t, 1)
        q3 == Quartile4(t, 3)
        iqr == q3 - q1
        v == 8 * Twice(col.cells[i])
    IN /\ ~isnull(col.cells[i])
       /\ (v < 2 * q1 - 3 * iqr \/ v > 2 * q3 + 3 * iqr)

remove_outliers(df) ==
    LET numeric == {j \in 1..Len(df) : df[j].dtype \in NumericDtypes}
        keep == {i \in 1..NRows(df) : \A j \in numeric : ~IsOutlier(df[j], i)}
    IN [data |-> TakeRows(df, keep),
        entry |-> LogEntry("remove_outliers", NRows(df) - Cardinality(keep),
                           numeric /= {})]

apply_operation(tag, df) ==
    CASE tag = "remove_duplicates" -> remove_duplicates(df)
      [] tag = "fix_data_types" -> fix_data_types(df)
      [] tag = "handle_missing_basic" -> handle_missing_basic(df)
      [] tag = "clean_text" -> clean_text(df)
      [] tag = "remove_outliers" -> remove_outliers(df)

\* the selected operations applied in canonical order, from tag number i on
RECURSIVE run_pipeline(_, _, _, _)
run_pipeline(df, log, ops, i) ==
    IF i > Len(Tags) THEN [data |-> df, log |-> log]
    ELSE IF Tags[i] \in ops
    THEN LET r == apply_operation(Tags[i], df)
         IN run_pipeline(r.data, Append(log, r.entry), ops, i + 1)
    ELSE run_pipeline(df, log, ops, i + 1)

\* DataCleaner.auto_clean_data: an unknown tag is rejected before anything
\* runs (spec 4.3 and 7); otherwise the cleaned dataset and its log
auto_clean_data(df, ops) ==
    IF ~(ops \subseteq TagSet)
    THEN [raised |-> TRUE, data |-> df, log |-> <<>>]
    ELSE LET r == run_pipeline(df, <<>>, ops, 1)
         IN [raised |-> FALSE, data |-> r.data, log |-> r.log]

\* memory estimate: bytes per cell by type, times the rows (spec 4.1)
Width(dtype) ==
    CASE dtype \in {"int8", "bool", "category"} -> 1
      [] dtype = "int16" -> 2
      [] dtype \in {"int32", "float32"} -> 4
      [] OTHER -> 8

RECURSIVE MemoryFrom(_, _)
MemoryFrom(df, j) ==
    IF j > Len(df) THEN 0
    ELSE Width(df[j].dtype) * Len(df[j].cells) + MemoryFrom(df, j + 1)

memory_usage(df) == MemoryFrom(df, 1)

Shape(df) == <<NRows(df), Len(df)>>

\* DataCleaner.get_cleaning_summary (spec 3, CleaningSummary)
get_cleaning_summary(original, cleaned, log) ==
    [original_shape |-> Shape(original),
     current_shape |-> Shape(cleaned),
     rows_changed |-> NRows(original) - NRows(cleaned),
     memory_before |-> memory_usage(original),
     memory_after |-> memory_usage(cleaned),
     savings |-> memory_usage(original) - memory_usage(cleaned),
     cleaning_log |-> log]

\* ------------------------------------------------------------------------
\* The application script app.py
\* ------------------------------------------------------------------------
\* None and a present value
None == <<>>
Some(x) == <<x>>

\* the files a user can upload: extension, sheets (one for a CSV), and
\* whether pandas reads the file or raises; the uploader accepts the
\* extensions csv, xlsx and xls only (line 79)
File(ext, sheets, readable) ==
    [ext |-> ext, sheets |-> sheets, readable |-> readable]

PricesSheet ==
    <<Column("price", "float64", <<NaN, NumCell(3)>>)>>

StockSheet ==
    <<Column("units", "int64", <<NumCell(1)>>)>>

Files ==
    {File("xlsx", <<PricesSheet, StockSheet>>, TRUE),
     File("csv", <<PricesSheet>>, FALSE),
     File("xls", <<StockSheet>>, FALSE)}

\* the two sample files read by the sidebar buttons
demo_data_csv ==
    <<Column("name", "object", <<StrCell(<<"b">>)>>)>>

demo_dirty_data_csv ==
    <<Column("share", "object",
             <<StrCell(<<" ", "a", "%">>), StrCell(<<"a", "%">>)>>)>>

VARIABLES
    uploaded_file,      \* the file_uploader widget: None or Some(file)
    sheet_selector,     \* the "Select Excel sheet" widget: a sheet number
    session_state,      \* st.session_state: a function on the keys present
    event,              \* what the last interaction rendered and called
    display             \* the display-cleaning harness (see SpecDisplay)

vars == <<uploaded_file, sheet_selector, session_state, event, display>>

\* st.session_state operations
Has(key) == key \in DOMAIN session_state
Get(key, default) == IF Has(key) THEN session_state[key] ELSE default
SetKey(ss, key, value) ==
    [x \in DOMAIN ss \cup {key} |-> IF x = key THEN value ELSE ss[x]]
DelKey(ss, key) == [x \in DOMAIN ss \ {key} |-> ss[x]]

\* lines 133-168: the frame read from the uploaded file, None when the
\* extension is unsupported or the read raises
read_uploaded(file, sheet) ==
    IF file.ext = "csv"
    THEN (IF file.readable THEN Some(file.sheets[1]) ELSE None)
    ELSE IF file.ext \in {"xlsx", "xls"}
    THEN (IF ~file.readable THEN None
          ELSE IF Len(file.sheets) > 1 /\ sheet /= 1
          THEN Some(file.sheets[sheet])
          ELSE Some(file.sheets[1]))
    ELSE None

\* variant: a file that cannot be loaded falls back to stored demo data
raw_df_falls_back(file, sheet, ss) ==
    IF file /= None /\ read_uploaded(file[1], sheet) /= None
    THEN read_uploaded(file[1], sheet)
    ELSE IF "demo_data" \in DOMAIN ss THEN Some(ss["demo_data"])
    ELSE None

\* variant: stored demo data is preferred to the uploaded file
raw_df_demo_first(file, sheet, ss) ==
    IF "demo_data" \in DOMAIN ss THEN Some(ss["demo_data"])
    ELSE IF file /= None THEN read_uploaded(file[1], sheet)
    ELSE None

\* lines 129-168, 180-182: the frame a run loads from the uploaded file, the
\* selected sheet and the session state, before display cleaning
raw_df(file, sheet, ss) ==
    IF file /= None THEN read_uploaded(file[1], sheet)
    ELSE IF "demo_data" \in DOMAIN ss THEN Some(ss["demo_data"])
    ELSE None

\* lines 170-173, 186: df of the run, display-cleaned when a frame was loaded
load_df(file, sheet, ss) ==
    IF raw_df(file, sheet, ss) /= None
    THEN Some(clean_dataframe_for_display(raw_df(file, sheet, ss)[1]))
    ELSE None

\* line 192: current_df as a run computes it
active_df(file, sheet, ss) ==
    IF "cleaned_data" \in DOMAIN ss THEN ss["cleaned_data"]
    ELSE load_df(file, sheet, ss)[1]

\* df and current_df of the run that renders the current state, and of the
\* run that renders the state after a step
df == load_df(uploaded_file, sheet_selector, session_state)
current_df == active_df(uploaded_file, sheet_selector, session_state)
next_df == load_df(uploaded_file', sheet_selector', session_state')
next_current_df == active_df(uploaded_file', sheet_selector', session_state')

data_source ==
    IF uploaded_file /= None
    THEN (IF df /= None THEN "uploaded" ELSE "none")
    ELSE IF Has("demo_data") THEN "demo" ELSE "none"

is_cleaned == Has("cleaned_data")

\* line 189: the overview and the tabs are rendered (df is not None)
has_df == raw_df(uploaded_file, sheet_selector, session_state) /= None

\* lines 195-213: the data overview and the preview are rendered from
\* current_df on every run that has a dataset
overview_df == current_df
preview_df == current_df

\* line 857: the welcome screen
welcome_screen == ~has_df

\* line 436: the results panel (with its two buttons) is rendered
results_panel == Get("show_cleaning_results", FALSE) /\ Has("temp_cleaned_data")

\* line 806
export_df == Get("cleaned_data", current_df)

\* what one interaction did: the handler that ran and its input, the
\* collaborator it called and the dataset it passed, the call that raised (if
\* any), the message it showed, and the second hand-over of a dataset (its
\* collaborator and dataset) when the handler makes two
CleanEvent(options, consumer, data, raised, message) ==
    [handler |-> "Auto-Clean Data", input |-> options, consumer |-> consumer,
     data |-> data, raised |-> raised, message |-> message, second |-> None]

Event(handler, consumer, data, message) ==
    [handler |-> handler, input |-> {}, consumer |-> consumer, data |-> data,
     raised |-> "", message |-> message, second |-> None]

NoEvent == Event("none", "none", None, "")

DisplayIdle == [pc |-> "idle", input |-> <<>>, app |-> None, backup |-> None]

Init ==
    /\ uploaded_file = None
    /\ sheet_selector = 1
    /\ session_state = <<>>
    /\ event = NoEvent
    /\ display = DisplayIdle

\* ---- sidebar ------------------------------------------------------------
\* line 79: the user uploads, replaces or removes a file; the script re-runs
UploadFile(f) ==
    /\ uploaded_file' = f
    /\ uploaded_file' /= uploaded_file
    /\ sheet_selector' = 1
    /\ event' = Event("file_uploader", "none", None, "")
    /\ UNCHANGED <<session_state, display>>

\* lines 151-160: the sheet selectbox, rendered for a readable workbook with
\* more than one sheet
SelectSheet(i) ==
    /\ uploaded_file /= None
    /\ uploaded_file[1].ext \in {"xlsx", "xls"}
    /\ uploaded_file[1].readable
    /\ Len(uploaded_file[1].sheets) > 1
    /\ i \in 1..Len(uploaded_file[1].sheets)
    /\ i /= sheet_selector
    /\ sheet_selector' = i
    /\ event' = Event("sheet_selector", "none", None, "")
    /\ UNCHANGED <<uploaded_file, session_state, display>>

\* lines 86-93: the "Clean Data" sample button
LoadCleanDemo(readable) ==
    /\ IF readable
       THEN /\ session_state' = SetKey(session_state, "demo_data", demo_data_csv)
            /\ event' = Event("Clean Data", "none", None,
                              "Clean CSV dataset loaded!")
       ELSE /\ event' = Event("Clean Data", "none", None,
                              "Error loading demo data")
            /\ UNCHANGED session_state
    /\ UNCHANGED <<uploaded_file, sheet_selector, display>>

\* lines 96-104: the "Dirty Data" sample button
LoadDirtyDemo(readable) ==
    /\ IF readable
       THEN /\ session_state' =
                 SetKey(session_state, "demo_data", demo_dirty_data_csv)
            /\ event' = Event("Dirty Data", "none", None,
                              "Dirty dataset loaded!")
       ELSE /\ event' = Event("Dirty Data", "none", None,
                              "Error loading dirty data")
            /\ UNCHANGED session_state
    /\ UNCHANGED <<uploaded_file, sheet_selector, display>>

\* ---- tabs: handlers that only read --------------------------------------
\* a handler that passes a dataset to a collaborator and stores nothing
Consume(handler, consumer, data) ==
    /\ has_df
    /\ event' = Event(handler, consumer, Some(data), "")
    /\ UNCHANGED <<uploaded_file, sheet_selector, session_state, display>>

\* lines 220-222
GenerateEDAReport == Consume("Generate EDA Report", "eda.show_eda", current_df)

\* variant: the query handler is given current_df
QueryData_current == Consume("query", "query_parser.handle_query", current_df)

\* lines 243-254
QueryData == Consume("query", "query_parser.handle_query", df[1])

\* lines 265-274
GenerateVisualization ==
    Consume("Generate Visualization", "chart_gen.generate_chart", df[1])

\* lines 297, 302-304
AnalyzeDataQuality ==
    Consume("Analyze Data Quality", "cleaner.generate_data_quality_report",
            current_df)

\* lines 297, 387-389
GetCleaningSuggestions ==
    Consume("Get Cleaning Suggestions", "cleaner.suggest_cleaning_strategies",
            current_df)

\* line 529
validation_df == Get("cleaned_data", df[1])

\* lines 527-538: the report of a DataCleaner built on validation_df and,
\* when cleaned_data is stored, the report of a second DataCleaner built on
\* df for the comparison of the two
ValidateDataQuality ==
    /\ has_df
    /\ event' = [Event("Validate Data Quality",
                       "validator.generate_data_quality_report",
                       Some(validation_df), "")
                 EXCEPT !.second =
                    IF Has("cleaned_data")
                    THEN Some([consumer |->
                                  "original_cleaner.generate_data_quality_report",
                               data |-> df[1]])
                    ELSE None]
    /\ UNCHANGED <<uploaded_file, sheet_selector, session_state, display>>

\* lines 583-585
AIAssistant == Consume("AI Assistant", "live_assistant.set_dataset", df[1])

\* lines 806-810
ExportCSV == Consume("Export as CSV", "exporter.export_csv", export_df)

\* lines 806, 820-822
ExportExcel == Consume("Export as Excel", "exporter.export_excel", export_df)

\* lines 835-839
GeneratePDFReport ==
    Consume("Generate PDF Report", "exporter.generate_pdf_report", df[1])

\* ---- tab 4: cleaning ------------------------------------------------------
\* Every access of st.session_state is a point where Streamlit stops the
\* script (RerunException, which `except Exception` does not catch) when the
\* user has touched another widget meanwhile. A handler that makes several
\* writes can therefore end after any of them (done is the number of writes
\* made); a press that is stopped before its first write has changed nothing
\* and is no step.

\* one write of st.session_state
SetWrite(key, value) == [op |-> "set", key |-> key, value |-> value]
DelWrite(key) == [op |-> "del", key |-> key]

\* the first n writes of a handler, in order
RECURSIVE ApplyWrites(_, _, _)
ApplyWrites(ss, writes, n) ==
    IF n = 0 \/ writes = <<>> THEN ss
    ELSE ApplyWrites(IF Head(writes).op = "set"
                     THEN SetKey(ss, Head(writes).key, Head(writes).value)
                     ELSE DelKey(ss, Head(writes).key),
                     Tail(writes), n - 1)

\* a handler that was stopped before its last write
Stopped(handler, consumer, data) ==
    [handler |-> handler, input |-> {}, consumer |-> consumer, data |-> data,
     raised |-> "RerunException", message |-> "", second |-> None]

\* the ways the cleaning call can end (lines 420-431)
Outcomes == {"ok", "auto_clean_data raises", "get_cleaning_summary raises"}

\* line 401: the multiselect offers the five tags
CleaningOptions == SUBSET TagSet

\* line 410: the default selection
DefaultOptions == {"remove_duplicates", "fix_data_types", "handle_missing_basic"}

\* variant: the multiselect also offers a tag the engine does not know
Selections_with_unknown ==
    {{}, DefaultOptions, {"clean_text"}, TagSet, {"clean_text", "frobnicate"}}

\* the selections explored: nothing, the default, one operation, everything
Selections == {{}, DefaultOptions, {"clean_text"}, TagSet}

\* lines 425-427: the three stores of a successful run
AutoCleanStores(original, r) ==
    <<SetWrite("temp_cleaned_data", r.data),
      SetWrite("cleaning_summary",
               get_cleaning_summary(original, r.data, r.log)),
      SetWrite("show_cleaning_results", TRUE)>>

\* variant: a run also overwrites cleaned_data with its result
AutoCleanData_in_place(cleaning_options, outcome) ==
    /\ has_df
    /\ \E original \in {current_df} :
       \E r \in {auto_clean_data(original, cleaning_options)} :
       \E stores \in {AutoCleanStores(original, r)} :
          IF cleaning_options = {}
          THEN /\ event' = CleanEvent(cleaning_options, "none", None, "",
                             "Please select at least one cleaning operation")
               /\ UNCHANGED session_state
          ELSE IF outcome = "ok" /\ ~r.raised
          THEN \E done \in 1..Len(stores) :
                 /\ session_state' = SetKey(ApplyWrites(session_state, stores, done),
                             "cleaned_data", r.data)
                 /\ event' = CleanEvent(cleaning_options,
                               "cleaner.auto_clean_data", Some(original),
                               IF done < Len(stores) THEN "RerunException"
                               ELSE "",
                               IF done < Len(stores) THEN ""
                               ELSE "Data cleaning completed!")
          ELSE /\ session_state' =
                    SetKey(session_state, "show_cleaning_results", FALSE)
               /\ event' = CleanEvent(cleaning_options,
                             "cleaner.auto_clean_data", Some(original),
                             IF outcome = "ok" THEN "auto_clean_data raises"
                             ELSE outcome,
                             "Error during cleaning")
    /\ UNCHANGED <<uploaded_file, sheet_selector, display>>

\* variant: the cleaned dataset is stored before the summary is computed
AutoCleanData_stores_first(cleaning_options, outcome) ==
    /\ has_df
    /\ \E original \in {current_df} :
       \E r \in {auto_clean_data(original, cleaning_options)} :
       \E stores \in {AutoCleanStores(original, r)} :
          IF cleaning_options = {}
          THEN /\ event' = CleanEvent(cleaning_options, "none", None, "",
                             "Please select at least one cleaning operation")
               /\ UNCHANGED session_state
          ELSE IF outcome = "ok" /\ ~r.raised
          THEN \E done \in 1..Len(stores) :
                 /\ session_state' = ApplyWrites(session_state, stores, done)
                 /\ event' = CleanEvent(cleaning_options,
                               "cleaner.auto_clean_data", Some(original),
                               IF done < Len(stores) THEN "RerunException"
                               ELSE "",
                               IF done < Len(stores) THEN ""
                               ELSE "Data cleaning completed!")
          ELSE /\ session_state' =
                    SetKey(IF outcome = "get_cleaning_summary raises"
                           THEN SetKey(session_state, "temp_cleaned_data", r.data)
                           ELSE session_state,
                           "show_cleaning_results", FALSE)
               /\ event' = CleanEvent(cleaning_options,
                             "cleaner.auto_clean_data", Some(original),
                             IF outcome = "ok" THEN "auto_clean_data raises"
                             ELSE outcome,
                             "Error during cleaning")
    /\ UNCHANGED <<uploaded_file, sheet_selector, display>>

\* variant: no check that an operation is selected
AutoCleanData_no_guard(cleaning_options, outcome) ==
    /\ has_df
    /\ \E original \in {current_df} :
       \E r \in {auto_clean_data(original, cleaning_options)} :
       \E stores \in {AutoCleanStores(original, r)} :
          IF outcome = "ok" /\ ~r.raised
          THEN \E done \in 1..Len(stores) :
                 /\ session_state' = ApplyWrites(session_state, stores, done)
                 /\ event' = CleanEvent(cleaning_options,
                               "cleaner.auto_clean_data", Some(original),
                               IF done < Len(stores) THEN "RerunException"
                               ELSE "",
                               IF done < Len(stores) THEN ""
                               ELSE "Data cleaning completed!")
          ELSE /\ session_state' =
                    SetKey(session_state, "show_cleaning_results", FALSE)
               /\ event' = CleanEvent(cleaning_options,
                             "cleaner.auto_clean_data", Some(original),
                             IF outcome = "ok" THEN "auto_clean_data raises"
                             ELSE outcome,
                             "Error during cleaning")
    /\ UNCHANGED <<uploaded_file, sheet_selector, display>>

\* variant: the cleaner is built on the loaded dataset df
AutoCleanData_on_loaded(cleaning_options, outcome) ==
    /\ has_df
    /\ \E original \in {df[1]} :
       \E r \in {auto_clean_data(original, cleaning_options)} :
       \E stores \in {AutoCleanStores(original, r)} :
          IF cleaning_options = {}
          THEN /\ event' = CleanEvent(cleaning_options, "none", None, "",
                             "Please select at least one cleaning operation")
               /\ UNCHANGED session_state
          ELSE IF outcome = "ok" /\ ~r.raised
          THEN \E done \in 1..Len(stores) :
                 /\ session_state' = ApplyWrites(session_state, stores, done)
                 /\ event' = CleanEvent(cleaning_options,
                               "cleaner.auto_clean_data", Some(original),
                               IF done < Len(stores) THEN "RerunException"
                               ELSE "",
                               IF done < Len(stores) THEN ""
                               ELSE "Data cleaning completed!")
          ELSE /\ session_state' =
                    SetKey(session_state, "show_cleaning_results", FALSE)
               /\ event' = CleanEvent(cleaning_options,
                             "cleaner.auto_clean_data", Some(original),
                             IF outcome = "ok" THEN "auto_clean_data raises"
                             ELSE outcome,
                             "Error during cleaning")
    /\ UNCHANGED <<uploaded_file, sheet_selector, display>>

\* lines 417-433: the "Auto-Clean Data" button with the options selected
AutoCleanData(cleaning_options, outcome) ==
    /\ has_df
    /\ \E original \in {current_df} :
       \E r \in {auto_clean_data(original, cleaning_options)} :
       \E stores \in {AutoCleanStores(original, r)} :
          IF cleaning_options = {}
          THEN /\ event' = CleanEvent(cleaning_options, "none", None, "",
                             "Please select at least one cleaning operation")
               /\ UNCHANGED session_state
          ELSE IF outcome = "ok" /\ ~r.raised
          THEN \E done \in 1..Len(stores) :
                 /\ session_state' = ApplyWrites(session_state, stores, done)
                 /\ event' = CleanEvent(cleaning_options,
                               "cleaner.auto_clean_data", Some(original),
                               IF done < Len(stores) THEN "RerunException"
                               ELSE "",
                               IF done < Len(stores) THEN ""
                               ELSE "Data cleaning completed!")
          ELSE /\ session_state' =
                    SetKey(session_state, "show_cleaning_results", FALSE)
               /\ event' = CleanEvent(cleaning_options,
                             "cleaner.auto_clean_data", Some(original),
                             IF outcome = "ok" THEN "auto_clean_data raises"
                             ELSE outcome,
                             "Error during cleaning")
    /\ UNCHANGED <<uploaded_file, sheet_selector, display>>

\* lines 464-470: the writes of the commit
UseCleanedWrites(ss) ==
    <<SetWrite("cleaned_data", ss["temp_cleaned_data"]),
      SetWrite("show_cleaning_results", FALSE)>>
    \o (IF "temp_cleaned_data" \in DOMAIN ss
        THEN <<DelWrite("temp_cleaned_data")>> ELSE <<>>)
    \o (IF "cleaning_summary" \in DOMAIN ss
        THEN <<DelWrite("cleaning_summary")>> ELSE <<>>)

\* lines 463-472: the "Use Cleaned Data" button of the results panel
UseCleanedData ==
    /\ has_df
    /\ results_panel
    /\ \E done \in 1..Len(UseCleanedWrites(session_state)) :
          /\ session_state' =
                ApplyWrites(session_state, UseCleanedWrites(session_state), done)
          /\ event' = IF done < Len(UseCleanedWrites(session_state))
                      THEN Stopped("Use Cleaned Data", "none", None)
                      ELSE Event("Use Cleaned Data", "none", None,
                                 "Cleaned data is now being used for analysis!")
    /\ UNCHANGED <<uploaded_file, sheet_selector, display>>

\* lines 477-484: the writes of the reset of the results panel
ResetToOriginalWrites(ss) ==
    (IF "cleaned_data" \in DOMAIN ss
     THEN <<DelWrite("cleaned_data")>> ELSE <<>>)
    \o <<SetWrite("show_cleaning_results", FALSE)>>
    \o (IF "temp_cleaned_data" \in DOMAIN ss
        THEN <<DelWrite("temp_cleaned_data")>> ELSE <<>>)
    \o (IF "cleaning_summary" \in DOMAIN ss
        THEN <<DelWrite("cleaning_summary")>> ELSE <<>>)

\* lines 475-486: the "Reset to Original" button of the results panel
ResetToOriginal ==
    /\ has_df
    /\ results_panel
    /\ \E done \in 1..Len(ResetToOriginalWrites(session_state)) :
          /\ session_state' =
                ApplyWrites(session_state,
                            ResetToOriginalWrites(session_state), done)
          /\ event' = IF done < Len(ResetToOriginalWrites(session_state))
                      THEN Stopped("Reset to Original", "none", None)
                      ELSE Event("Reset to Original", "none", None,
                                 "Reset to original data!")
    /\ UNCHANGED <<uploaded_file, sheet_selector, display>>

\* variant: the reset also deletes the summary of the working dataset
ResetToOriginalData_drops_summary ==
    /\ has_df
    /\ IF Has("cleaned_data")
       THEN /\ session_state' =
                 DelKey(DelKey(session_state, "cleaned_data"),
                        "cleaning_summary")
            /\ event' = Event("Reset to Original Data", "none", None,
                              "Reset to original data")
       ELSE /\ event' = Event("Reset to Original Data", "none", None, "")
            /\ UNCHANGED session_state
    /\ UNCHANGED <<uploaded_file, sheet_selector, display>>

\* variant: the reset reports success without deleting cleaned_data
ResetToOriginalData_keeps_cleaned ==
    /\ has_df
    /\ IF Has("cleaned_data")
       THEN /\ session_state' =
                 SetKey(session_state, "show_cleaning_results", FALSE)
            /\ event' = Event("Reset to Original Data", "none", None,
                              "Reset to original data")
       ELSE /\ event' = Event("Reset to Original Data", "none", None, "")
            /\ UNCHANGED session_state
    /\ UNCHANGED <<uploaded_file, sheet_selector, display>>

\* lines 491-495: the "Reset to Original Data" button of the second column
\* (one write)
ResetToOriginalData ==
    /\ has_df
    /\ IF Has("cleaned_data")
       THEN /\ session_state' = DelKey(session_state, "cleaned_data")
            /\ event' = Event("Reset to Original Data", "none", None,
                              "Reset to original data")
       ELSE /\ event' = Event("Reset to Original Data", "none", None, "")
            /\ UNCHANGED session_state
    /\ UNCHANGED <<uploaded_file, sheet_selector, display>>

\* the handlers that change the session: the sidebar and the cleaning tab
Cleaning ==
    \/ \E ops \in Selections : AutoCleanData(ops, "ok")
    \/ \E outcome \in Outcomes : AutoCleanData(DefaultOptions, outcome)
    \/ UseCleanedData
    \/ ResetToOriginal
    \/ ResetToOriginalData

Next ==
    \/ \E f \in {None} \cup {Some(x) : x \in Files} : UploadFile(f)
    \/ \E i \in 1..2 : SelectSheet(i)
    \/ \E readable \in BOOLEAN : LoadCleanDemo(readable)
    \/ \E readable \in BOOLEAN : LoadDirtyDemo(readable)
    \/ Cleaning

Spec == Init /\ [][Next]_vars

\* ---- a run of the script with no button pressed -------------------------
\* lines 129-187: what a run reports about the data it loaded
load_message(file, sheet, ss) ==
    IF file /= None
    THEN (IF read_uploaded(file[1], sheet) /= None
          THEN "File loaded successfully!"
          ELSE IF file[1].ext = "csv" THEN "Error loading uploaded file"
          ELSE IF file[1].ext \in {"xlsx", "xls"} THEN "Error reading Excel file"
          ELSE "Unsupported file format")
    ELSE IF "demo_data" \in DOMAIN ss THEN "Using demo dataset for analysis"
    ELSE ""

\* lines 129-187 by reference (loaded is the script's df). With a file, df
\* is the object read (139-159) and line 173 calls
\* _clean_dataframe_for_display(df). Without one, the object stored under
\* demo_data is reference 1, line 182 binds df to a copy of it and line 186
\* makes the call. The value is the frame given to
\* the call, that object after the call, the frame returned, and the
\* session state with the demo_data object as the run leaves it.
load_run(file, sheet, ss) ==
    IF file /= None
    THEN LET heap == <<read_uploaded(file[1], sheet)[1]>>
             loaded == 1
             call == call_clean_dataframe_for_display(heap, loaded)
         IN  [given |-> heap[loaded], arg |-> call.heap[loaded],
              result |-> Returned(call), session_state |-> ss]
    ELSE LET heap == DataFrame_copy(<<ss["demo_data"]>>, 1)
             loaded == 2
             call == call_clean_dataframe_for_display(heap, loaded)
         IN  [given |-> heap[loaded], arg |-> call.heap[loaded],
              result |-> Returned(call),
              session_state |-> [ss EXCEPT !["demo_data"] = call.heap[1]]]

\* lines 129-187: the script runs again (any widget change that is not one
\* of the handlers above)
Rerun ==
    /\ has_df
    /\ \E run \in {load_run(uploaded_file, sheet_selector, session_state)} :
          /\ display' = [pc |-> "run", input |-> run.arg,
                         app |-> Some(run.result), backup |-> None]
          /\ event' = Event("rerun", "_clean_dataframe_for_display",
                            Some(run.given),
                            load_message(uploaded_file, sheet_selector,
                                         session_state))
          /\ session_state' = run.session_state
    /\ UNCHANGED <<uploaded_file, sheet_selector>>

\* the tabs of one loaded dataset: the cleaning handlers and the handlers
\* that hand a dataset to a collaborator
InitTabs ==
    /\ uploaded_file \in {None} \cup {Some(x) : x \in Files}
    /\ sheet_selector = 1
    /\ session_state \in {<<>>,
                          SetKey(<<>>, "demo_data", demo_data_csv),
                          SetKey(<<>>, "demo_data", demo_dirty_data_csv)}
    /\ event = NoEvent
    /\ display = DisplayIdle

NextTabs ==
    \/ GenerateEDAReport
    \/ QueryData
    \/ GenerateVisualization
    \/ AnalyzeDataQuality
    \/ GetCleaningSuggestions
    \/ ValidateDataQuality
    \/ AIAssistant
    \/ ExportCSV
    \/ ExportExcel
    \/ GeneratePDFReport
    \/ Cleaning

SpecTabs == InitTabs /\ [][NextTabs]_vars

\* the cleaning tab of one loaded dataset, and runs with no button pressed
NextRun == Cleaning \/ Rerun

SpecRun == InitTabs /\ [][NextRun]_vars

\* ------------------------------------------------------------------------
\* The display cleaning of app.py and of backup_app.py on the same input
\* ------------------------------------------------------------------------
\* what an object column read by pandas can hold: strings, the missing
\* values NaN, None, NaT and pd.NA, and the Python numbers (7 and 7.5), bools and
\* timestamps (on the first day, after it, and a recent date) of a mixed
\* column
ObjectCells ==
    {StrCell(s) : s \in BoundedStrs \cup {S_nan, S_None, S_NaN}}
    \cup {NaN, PyNone, NaT, PdNA, NumCell(7), NumFromTwice(15), BoolCell(TRUE),
          TsCell(1), TsCell(90061), TsCell(1700000000)}

FewObjectCells ==
    {StrCell(<<":">>), StrCell(<<"a">>), StrCell(S_nan), NaN, NaT}

CellsOf(dtype) ==
    CASE dtype = "object" -> FewObjectCells
      [] dtype = "float64" -> {NaN, NumCell(3)}
      [] dtype = "int64" -> {NumCell(1)}
      [] dtype = "bool" -> {BoolCell(TRUE)}
      [] dtype = "datetime64[ns]" -> {NaT, TsCell(1)}

Dtypes == {"object", "float64", "int64", "bool", "datetime64[ns]"}

RECURSIVE CellSeqs(_, _)
CellSeqs(cells, n) ==
    IF n = 0 THEN {<<>>}
    ELSE {Append(s, c) : s \in CellSeqs(cells, n - 1), c \in cells}

\* one object column of one row with any cell, one column of any type of up
\* to MaxRows rows, and an object column next to a float column
DisplayInputs ==
    {<<Column("text", "object", <<c>>)>> : c \in ObjectCells}
    \cup UNION {{<<Column("c", t, cs)>> : cs \in CellSeqs(CellsOf(t), n)} :
                   t \in Dtypes, n \in 1..MaxRows}
    \cup {<<Column("text", "object", <<c>>), Column("x", "float64", <<d>>)>> :
             c \in FewObjectCells, d \in CellsOf("float64")}

InitDisplay ==
    /\ uploaded_file = None
    /\ sheet_selector = 1
    /\ session_state = <<>>
    /\ event = NoEvent
    /\ display \in {[pc |-> "input", input |-> x, app |-> None, backup |-> None] :
                      x \in DisplayInputs}

\* app.py lines 13-37 called on the input
CallAppClean ==
    /\ display.pc = "input"
    /\ display.app = None
    /\ display' = [display EXCEPT
                     !.app = Some(clean_dataframe_for_display(display.input))]
    /\ UNCHANGED <<uploaded_file, sheet_selector, session_state, event>>

\* backup_app.py lines 31-55 called on the input
CallBackupClean ==
    /\ display.pc = "input"
    /\ display.backup = None
    /\ display' = [display EXCEPT
                     !.backup = Some(backup_clean_dataframe_for_display(display.input))]
    /\ UNCHANGED <<uploaded_file, sheet_selector, session_state, event>>

NextDisplay == CallAppClean \/ CallBackupClean

SpecDisplay == InitDisplay /\ [][NextDisplay]_vars

\* ------------------------------------------------------------------------
\* Properties
\* ------------------------------------------------------------------------

\* the value of a session key is the same before and after the step
SameKey(key) ==
    /\ Has(key)' = Has(key)
    /\ Has(key) => session_state'[key] = session_state[key]

\* the ways the cleaning call fails
Failures == Outcomes \ {"ok"}

\* the step is a successful "Auto-Clean Data": the engine calls returned and
\* the handler made all its stores
CleanedStep ==
    /\ event'.handler = "Auto-Clean Data"
    /\ event'.input /= {}
    /\ event'.raised = ""

\* C1: whenever "Use Cleaned Data" fires, the active dataset afterwards
\* (cleaned_data, read as current_df by the next run) is the working dataset
\* temp_cleaned_data, and the working dataset, its summary and the results
\* panel flag are all cleared.
C1_CommitPromotesWorking ==
    [][event'.handler = "Use Cleaned Data" =>
          /\ Has("temp_cleaned_data")
          /\ Has("cleaned_data")'
          /\ session_state'["cleaned_data"] = session_state["temp_cleaned_data"]
          /\ next_current_df = session_state["temp_cleaned_data"]
          /\ ~Has("temp_cleaned_data")'
          /\ ~Has("cleaning_summary")'
          /\ ~Get("show_cleaning_results", FALSE)'
          /\ ~results_panel'
      ]_vars

\* C2: after either reset action ("Reset to Original" of the results panel,
\* "Reset to Original Data" of the second column) no working dataset and no
\* summary remain, the results panel is not shown and the active dataset is
\* the loaded dataset df.
C2_ResetDiscardsWorking ==
    [][event'.handler \in {"Reset to Original", "Reset to Original Data"} =>
          /\ ~Has("temp_cleaned_data")'
          /\ ~Has("cleaning_summary")'
          /\ ~results_panel'
          /\ next_current_df = next_df[1]
      ]_vars

\* C3: through Auto-Clean, commit and reset the loaded dataset df (and the
\* stored demo data and the uploaded file it is computed from) never changes,
\* "Reset to Original Data" is enabled whenever a dataset is loaded, and
\* firing it makes the active dataset equal to df.
C3_OriginalPreserved ==
    /\ [](df /= None => ENABLED ResetToOriginalData)
    /\ [][/\ event'.handler \in {"Auto-Clean Data", "Use Cleaned Data",
                                 "Reset to Original", "Reset to Original Data"}
             => /\ next_df = df
                /\ uploaded_file' = uploaded_file
                /\ SameKey("demo_data")
          /\ event'.handler \in {"Reset to Original", "Reset to Original Data"}
             => /\ ~Has("cleaned_data")'
                /\ next_current_df = df[1]
         ]_vars

C3_Witness ==
    /\ event.handler = "Reset to Original Data"
    /\ event.message = "Reset to original data"
    /\ Has("temp_cleaned_data")
    /\ has_df
    /\ current_df = df[1]
    /\ session_state["temp_cleaned_data"] /= df[1]

\* C4: a successful Auto-Clean stores the result of that run as the working
\* dataset with the summary of that run and leaves cleaned_data (or its
\* absence) as it was; cleaned_data takes a value only in a commit.
C4_AutoCleanReplacesWorking ==
    [][/\ CleanedStep =>
            /\ Has("temp_cleaned_data")' /\ Has("cleaning_summary")'
            /\ session_state'["temp_cleaned_data"] =
                  auto_clean_data(current_df, event'.input).data
            /\ session_state'["cleaning_summary"] =
                  get_cleaning_summary(current_df,
                      session_state'["temp_cleaned_data"],
                      auto_clean_data(current_df, event'.input).log)
            /\ SameKey("cleaned_data")
            /\ next_current_df = current_df
       /\ event'.handler = "Auto-Clean Data" =>
            /\ SameKey("cleaned_data")
            /\ next_current_df = current_df
       /\ (Has("cleaned_data")' /\ ~SameKey("cleaned_data"))
            => event'.handler = "Use Cleaned Data"
      ]_vars

C4_Witness ==
    /\ event.handler = "Auto-Clean Data"
    /\ event.raised = ""
    /\ Has("cleaned_data")
    /\ Has("temp_cleaned_data")
    /\ session_state["temp_cleaned_data"] /= session_state["cleaned_data"]
    /\ session_state["cleaning_summary"].rows_changed > 0

\* C5: when auto_clean_data or get_cleaning_summary raises, an error message
\* is shown and the working dataset, its summary and the active dataset are
\* what they were before the attempt.
C5_FailedCleanChangesNothing ==
    [][(event'.handler = "Auto-Clean Data" /\ event'.raised \in Failures) =>
          /\ event'.message = "Error during cleaning"
          /\ SameKey("temp_cleaned_data")
          /\ SameKey("cleaning_summary")
          /\ SameKey("cleaned_data")
          /\ next_current_df = current_df
      ]_vars

C5_Witness ==
    /\ event.handler = "Auto-Clean Data"
    /\ event.raised = "get_cleaning_summary raises"
    /\ event.message = "Error during cleaning"
    /\ ~Has("temp_cleaned_data")
    /\ ~Has("cleaning_summary")

\* C6 as claimed: Auto-Clean with no operation selected yields a result
\* dataset equal to the input dataset with an empty operation log.
C6_ZeroOperationsYieldsResult ==
    [][(event'.handler = "Auto-Clean Data" /\ event'.input = {}) =>
          /\ Has("temp_cleaned_data")' /\ Has("cleaning_summary")'
          /\ session_state'["temp_cleaned_data"] = current_df
          /\ session_state'["cleaning_summary"].cleaning_log = <<>>
      ]_vars

\* C6 amended: Auto-Clean with no operation selected is not an error and
\* changes no state: the handler shows a warning, does not call the engine
\* and stores no result dataset and no log.
C6_ZeroOperationsNoOp ==
    [][(event'.handler = "Auto-Clean Data" /\ event'.input = {}) =>
          /\ session_state' = session_state
          /\ uploaded_file' = uploaded_file
          /\ event'.raised = ""
          /\ event'.consumer = "none"
          /\ event'.message = "Please select at least one cleaning operation"
      ]_vars

C6_Witness ==
    /\ event.handler = "Auto-Clean Data"
    /\ event.input = {}
    /\ has_df
    /\ ~Has("temp_cleaned_data")
    /\ ~Has("cleaning_summary")

\* C7: every export action (CSV, Excel, PDF report) receives the current
\* dataset: the committed cleaned dataset when there is one, otherwise the
\* loaded dataset.
C7_ExportsReceiveCurrent ==
    event.handler \in {"Export as CSV", "Export as Excel", "Generate PDF Report"}
    => event.data = Some(IF Has("cleaned_data")
                         THEN session_state["cleaned_data"] ELSE df[1])

\* C8: the query handler and the AI assistant receive the loaded dataset df
\* whatever the cleaning state, and their handlers leave the session state
\* (cleaned_data, temp_cleaned_data, cleaning_summary) as it is.
C8_QueryAndAssistantGetRaw ==
    /\ [](event.consumer \in {"query_parser.handle_query",
                              "live_assistant.set_dataset"}
          => event.data = df)
    /\ [][event'.consumer \in {"query_parser.handle_query",
                               "live_assistant.set_dataset"}
          => session_state' = session_state]_vars

C8_Witness ==
    /\ event.consumer = "query_parser.handle_query"
    /\ Has("cleaned_data")
    /\ Has("temp_cleaned_data")
    /\ session_state["cleaned_data"] /= df[1]

\* C9: once a cleaned dataset is committed, the overview, the preview, the
\* EDA report, the visualizations and the data-quality analysis are computed
\* from the committed cleaned dataset.
C9_AnalysisUsesCleaned ==
    Has("cleaned_data") =>
        /\ overview_df = session_state["cleaned_data"]
        /\ preview_df = session_state["cleaned_data"]
        /\ event.handler \in {"Generate EDA Report", "Generate Visualization",
                              "Analyze Data Quality"}
           => event.data = Some(session_state["cleaned_data"])

\* C10: on every input dataframe the _clean_dataframe_for_display of
\* backup_app.py returns what the one of app.py returns.
C10_BackupEqualsApp ==
    (display.app /= None /\ display.backup /= None)
    => display.backup = display.app

\* the cells of the columns of a frame that are missing values
MissingCells(frame, dtypes) ==
    {<<j, i>> \in (1..Len(frame)) \X (1..NRows(frame)) :
        frame[j].dtype \in dtypes /\ isnull(frame[j].cells[i])}

\* C11: a run hands _clean_dataframe_for_display the frame it loaded, and
\* that object is after the call what it was before it (the function writes
\* into a copy only); the demo dataset stored in the session is the same
\* after every run (loading and display cleaning), Auto-Clean, commit and
\* reset; only the two sample buttons write it.
C11_InputsNotMutated ==
    [][/\ event'.handler = "rerun" =>
            /\ event'.data =
                  raw_df(uploaded_file, sheet_selector, session_state)
            /\ display'.input = event'.data[1]
       /\ event'.handler \notin {"Clean Data", "Dirty Data"} =>
            SameKey("demo_data")
      ]_vars

\* a run on demo data whose display cleaning changed a cell
C11_Witness ==
    /\ event.handler = "rerun"
    /\ uploaded_file = None
    /\ Has("cleaned_data")
    /\ session_state["demo_data"] = display.input
    /\ display.app /= Some(display.input)

\* C12: every call of auto_clean_data is made with a non-empty selection of
\* recognized tags, so the engine never rejects a selection as unknown, and
\* every operation recorded in a stored summary is one of the five tags and
\* was selected for that run.
C12_OnlyRecognizedTags ==
    [][event'.consumer = "cleaner.auto_clean_data" =>
          /\ event'.input /= {}
          /\ event'.input \subseteq TagSet
          /\ ~auto_clean_data(event'.data[1], event'.input).raised
          /\ CleanedStep =>
                \A i \in 1..Len(session_state'["cleaning_summary"].cleaning_log) :
                    session_state'["cleaning_summary"].cleaning_log[i].op
                        \in event'.input \cap TagSet
      ]_vars

C12_Witness ==
    /\ event.consumer = "cleaner.auto_clean_data"
    /\ event.input = TagSet
    /\ event.raised = ""
    /\ Has("cleaning_summary")
    /\ Len(session_state["cleaning_summary"].cleaning_log) = Len(Tags)

\* C13: the cleaner of an Auto-Clean is built on the active dataset: the
\* loaded dataset df when nothing is committed, the committed cleaned_data
\* otherwise, and the working dataset it stores is the cleaning of that
\* dataset (so a clean after a commit composes with the committed one);
\* either reset makes the active dataset the loaded dataset again.
C13_CleanerOnActiveDataset ==
    [][/\ event'.consumer = "cleaner.auto_clean_data" =>
            /\ event'.data = Some(current_df)
            /\ ~Has("cleaned_data") => event'.data = df
            /\ Has("cleaned_data") =>
                  event'.data = Some(session_state["cleaned_data"])
       /\ CleanedStep =>
            session_state'["temp_cleaned_data"] =
               auto_clean_data(IF Has("cleaned_data")
                               THEN session_state["cleaned_data"] ELSE df[1],
                               event'.input).data
       /\ event'.handler \in {"Reset to Original", "Reset to Original Data"} =>
            next_current_df = next_df[1]
      ]_vars

\* a committed dataset that no single Auto-Clean of the loaded dataset gives
C13_Witness ==
    /\ event.handler = "Use Cleaned Data"
    /\ has_df
    /\ Has("cleaned_data")
    /\ session_state["cleaned_data"] \notin
          {auto_clean_data(df[1], ops).data : ops \in Selections}
    /\ \E ops \in Selections :
          session_state["cleaned_data"] =
             auto_clean_data(auto_clean_data(df[1], {"clean_text"}).data,
                             ops).data

\* C14: with a file in the uploader the dataset is the display-cleaned frame
\* read from that file (none when it cannot be read) whether or not demo
\* data is stored; with no file and stored demo data it is the display-
\* cleaned demo data; with neither there is no dataset, the welcome screen
\* is shown and no handler of the tabs can run. The welcome screen is shown
\* exactly when there is no dataset.
C14_DataSourceSelection ==
    /\ uploaded_file /= None =>
          /\ data_source /= "demo"
          /\ df = IF read_uploaded(uploaded_file[1], sheet_selector) = None
                  THEN None
                  ELSE Some(clean_dataframe_for_display(
                              read_uploaded(uploaded_file[1], sheet_selector)[1]))
    /\ (uploaded_file = None /\ Has("demo_data")) =>
          /\ data_source = "demo"
          /\ df = Some(clean_dataframe_for_display(session_state["demo_data"]))
    /\ (uploaded_file = None /\ ~Has("demo_data")) =>
          /\ data_source = "none"
          /\ df = None
          /\ ~ENABLED Cleaning
    /\ welcome_screen <=> df = None

C14_Witness ==
    /\ uploaded_file /= None
    /\ Has("demo_data")
    /\ data_source = "uploaded"
    /\ df /= Some(clean_dataframe_for_display(session_state["demo_data"]))

\* the messages of a failed load
LoadErrors ==
    {"Unsupported file format", "Error reading Excel file",
     "Error loading uploaded file"}

\* C15: when the file in the uploader cannot be loaded (its extension is
\* not supported, or reading the workbook or the CSV raises) the run reports
\* an error, has no dataset even if demo data is stored, shows the welcome
\* screen and renders no tab, so no handler of the tabs can run.
C15_FailedUploadNoDataset ==
    (uploaded_file /= None
     /\ (\/ uploaded_file[1].ext \notin {"csv", "xlsx", "xls"}
         \/ ~uploaded_file[1].readable))
    => /\ load_message(uploaded_file, sheet_selector, session_state)
             \in LoadErrors
       /\ df = None
       /\ data_source = "none"
       /\ welcome_screen
       /\ ~ENABLED Cleaning
       /\ ~ENABLED Rerun

C15_Witness ==
    /\ uploaded_file /= None
    /\ uploaded_file[1].ext = "xls"
    /\ ~uploaded_file[1].readable
    /\ Has("demo_data")
    /\ Has("cleaned_data")
    /\ df = None
    /\ load_message(uploaded_file, sheet_selector, session_state) =
          "Error reading Excel file"

\* the characters the display cleaning replaces
ArrowUnsafe == {"%", "$", ":"}

\* the display cleaning kept the columns of its input (names, order, types,
\* row count), left no '%', '$' or ':' in an object column, and filled the
\* missing cells of int64 and float64 columns with 0
DisplayCleanShape ==
    /\ Len(display.app[1]) = Len(display.input)
    /\ ColumnNames(display.app[1]) = ColumnNames(display.input)
    /\ NRows(display.app[1]) = NRows(display.input)
    /\ MissingCells(display.app[1], {"object", "int64", "float64"}) = {}
    /\ \A j \in 1..Len(display.input) :
          /\ display.app[1][j].dtype = display.input[j].dtype
          /\ Len(display.app[1][j].cells) = Len(display.input[j].cells)
          /\ \A i \in 1..Len(display.input[j].cells) :
                /\ display.input[j].dtype = "object" =>
                      /\ display.app[1][j].cells[i].k = "str"
                      /\ \A n \in 1..Len(display.app[1][j].cells[i].s) :
                            display.app[1][j].cells[i].s[n] \notin ArrowUnsafe
                /\ display.input[j].dtype \in {"int64", "float64"} =>
                      display.app[1][j].cells[i] =
                         IF isnull(display.input[j].cells[i])
                         THEN NumCell(0) ELSE display.input[j].cells[i]

\* the strings the display cleaning replaces by ''
NanStrings == {StrCell(S_nan), StrCell(S_None), StrCell(S_NaN)}

\* C16 (as stated): the frame _clean_dataframe_for_display returns has the
\* columns of its input (same names, order, types and row count); in an
\* object column every cell is a string without '%', '$' or ':', and is ''
\* where the input cell was missing or one of the strings 'nan', 'None',
\* 'NaN'; in an int64 or float64 column a missing cell is 0 and every other
\* cell is the input cell; so no cell of an object, int64 or float64 column
\* is missing.
C16_DisplayCleanPostconditions ==
    display.app /= None =>
        /\ DisplayCleanShape
        /\ \A j \in 1..Len(display.input) :
              \A i \in 1..Len(display.input[j].cells) :
                 (/\ display.input[j].dtype = "object"
                  /\ \/ isnull(display.input[j].cells[i])
                     \/ display.input[j].cells[i] \in NanStrings)
                 => display.app[1][j].cells[i] = StrCell(<<>>)

\* C16 (amended): as above, except that in an object column only the
\* missing values NaN and None (and the strings 'nan', 'None', 'NaN') become
\* ''; NaT becomes the string 'NaT' and pd.NA the string '<NA>'. Every cell
\* of an object column is still a string, so no cell of an object, int64 or
\* float64 column is missing.
C16_DisplayCleanNaNAndNone ==
    display.app /= None =>
        /\ DisplayCleanShape
        /\ \A j \in 1..Len(display.input) :
              \A i \in 1..Len(display.input[j].cells) :
                 display.input[j].dtype = "object" =>
                    /\ display.input[j].cells[i] \in {NaN, PyNone} \cup NanStrings
                          => display.app[1][j].cells[i] = StrCell(<<>>)
                    /\ display.input[j].cells[i] = NaT
                          => display.app[1][j].cells[i] = StrCell(S_NaT)
                    /\ display.input[j].cells[i] = PdNA
                          => display.app[1][j].cells[i] = StrCell(S_NA)

\* an object column holding NaT next to a float column holding NaN
C16_Witness ==
    /\ display.pc = "input"
    /\ display.app /= None
    /\ Len(display.input) = 2
    /\ display.input[1].dtype = "object"
    /\ display.input[1].cells[1] = NaT
    /\ display.input[2].dtype = "float64"
    /\ isnull(display.input[2].cells[1])
    /\ display.app[1][1].cells[1] = StrCell(S_NaT)
    /\ display.app[1][2].cells[1] = NumCell(0)

\* C17: in every state temp_cleaned_data is stored exactly when
\* cleaning_summary is, and the stored summary is the summary of the run
\* that produced the stored working dataset (it describes a dataset of the
\* shape of the stored one).
C17_WorkingAndSummaryTogether ==
    /\ Has("temp_cleaned_data") <=> Has("cleaning_summary")
    /\ Has("cleaning_summary") =>
          session_state["cleaning_summary"].current_shape =
             Shape(session_state["temp_cleaned_data"])

\* C18: whenever the results panel is rendered the flag is set and both
\* temp_cleaned_data and cleaning_summary are stored, so the panel's read of
\* the summary finds its key; "Use Cleaned Data" can be pressed only in such
\* a state, so every commit reads a stored temp_cleaned_data.
C18_CommitOnlyWithWorking ==
    /\ [](results_panel =>
            /\ Get("show_cleaning_results", FALSE)
            /\ Has("temp_cleaned_data")
            /\ Has("cleaning_summary"))
    /\ []((ENABLED UseCleanedData) =>
            (results_panel /\ Has("temp_cleaned_data")))
    /\ [][event'.handler = "Use Cleaned Data" =>
            /\ results_panel
            /\ Has("temp_cleaned_data")
            /\ Has("cleaning_summary")
         ]_vars

\* a second Auto-Clean after a commit: the panel is rendered again
C18_Witness ==
    /\ event.handler = "Auto-Clean Data"
    /\ event.raised = ""
    /\ Has("cleaned_data")
    /\ results_panel
    /\ ENABLED UseCleanedData

\* C19: whenever "Use Cleaned Data" fires, the working dataset it installs
\* is a cleaning of the dataset that is active at that moment (the result
\* of auto_clean_data on current_df for some non-empty selection), never
\* one computed before a reset or before the loaded dataset changed.
C19_CommitNeverStale ==
    [][event'.handler = "Use Cleaned Data" =>
          session_state["temp_cleaned_data"] \in
             {auto_clean_data(current_df, ops).data :
                 ops \in CleaningOptions \ {{}}}
      ]_vars

====
